---- MODULE Spec2Model ----
(***************************************************************************)
(* Model of memory-mcp: the local file-backed backend with its keyword     *)
(* search engine (src/src/backends/local.ts), the remote Lakehouse42       *)
(* adapter (src/backends/lh42.ts) and the MCP server with its tool-call    *)
(* handler (src/server.ts, src/index.ts).                                  *)
(*                                                                         *)
(* Strings are sequences of one-character strings, so that toLowerCase,    *)
(* split(/\s+/) and String.includes are computed as JavaScript computes    *)
(* them.  Importances are counted in tenths (5 is 0.5); a score is the     *)
(* exact fraction num/den.  A timestamp is the millisecond count that the  *)
(* ISO string of toISOString() denotes.  An optional value is <<>> when    *)
(* undefined and <<v>> when supplied.                                      *)
(***************************************************************************)
EXTENDS Integers, Sequences, FiniteSets, TLC

VARIABLES
    memories,   \* LocalBackend.memories, per backend instance
    ready,      \* LocalBackend.ready, per backend instance
    file,       \* what the file at storagePath holds
    writable,   \* whether writeFileSync on storagePath succeeds
    now,        \* the wall clock, in milliseconds
    nextId,     \* number of identifiers randomUUID() has handed out
    last,       \* the most recent local backend call: input, result
    lhReady,    \* LH42Backend.ready
    lhLast,     \* the most recent remote backend call: response, result
    pc,         \* the server process: "start", "serving" or "exited"
    kind,       \* the backend createMemoryServer selects: "local" or "remote"
    registered, \* whether the tool-call handler has been registered
    exitCode,   \* the status the process exited with, if it has
    reply,      \* what the tool-call handler returned for the latest call
    inflight    \* the handler invocations suspended at an await, per call

vars == <<memories, ready, file, writable, now, nextId, last, lhReady, lhLast,
          pc, kind, registered, exitCode, reply, inflight>>
serverVars == <<pc, kind, registered, exitCode, reply, inflight>>
localVars == <<memories, ready, file, writable, now, nextId, last>>
remoteVars == <<lhReady, lhLast>>

----------------------------------------------------------------------------
(* Bounds *)

MaxIds == 2          \* remember calls in one behaviour
MaxClock == 2        \* last clock reading
MaxLimit == 2        \* largest limit argument of list
MaxOffset == 2       \* largest offset argument of list
MaxStore == 2        \* records in a store handed to the search engine
MaxCalls == 2        \* tool calls in flight at the same time
MaxSearchLimit == 1  \* largest limit argument of recall and search

(* Program constants *)

DefaultImportance == 5      \* input.importance ?? 0.5, in tenths
DefaultListLimit == 20      \* list(limit = 20, ...)
RemoteSearchLimit == 10     \* input.limit ?? 10 in LH42Backend.search
DefaultSearchLimit == 5     \* options.limit ?? 5
ToolDefaultImportance == 5  \* args.importance ?? config.defaultImportance ?? 0.5
ToolRecallLimit == 5        \* args.limit ?? 5 in the recall tool
ToolListLimit == 10         \* args.limit ?? 10 in the list_memories tool
FormatVersion == 1          \* StorageData.version written by save()

Undefined == <<>>
Null == <<>>
Some(v) == <<v>>

Inst == {1, 2}
Min(a, b) == IF a < b THEN a ELSE b
Max(a, b) == IF a < b THEN b ELSE a

----------------------------------------------------------------------------
(* JavaScript string primitives *)

UpperCase == <<"A", "B", "C", "D", "E", "F", "G", "H", "I", "J", "K", "L", "M",
               "N", "O", "P", "Q", "R", "S", "T", "U", "V", "W", "X", "Y", "Z">>
LowerCase == <<"a", "b", "c", "d", "e", "f", "g", "h", "i", "j", "k", "l", "m",
               "n", "o", "p", "q", "r", "s", "t", "u", "v", "w", "x", "y", "z">>

\* toLowerCase of one character
Lower(c) ==
    IF \E i \in DOMAIN UpperCase : UpperCase[i] = c
    THEN LowerCase[CHOOSE i \in DOMAIN UpperCase : UpperCase[i] = c]
    ELSE c

ToLowerCase(s) == [i \in 1..Len(s) |-> Lower(s[i])]

IsSpace(c) == c = " "

\* First index >= i of s that holds no whitespace (Len(s)+1 when none).
RECURSIVE SkipSpaces(_, _)
SkipSpaces(s, i) ==
    IF i > Len(s) \/ ~IsSpace(s[i]) THEN i ELSE SkipSpaces(s, i + 1)

\* s.split(/\s+/): the pieces between maximal runs of whitespace.  A string
\* that starts or ends with whitespace yields an empty first or last piece,
\* and the empty string yields the single piece "".
RECURSIVE SplitFrom(_, _, _, _)
SplitFrom(s, i, cur, acc) ==
    IF i > Len(s) THEN Append(acc, cur)
    ELSE IF IsSpace(s[i]) THEN SplitFrom(s, SkipSpaces(s, i), <<>>, Append(acc, cur))
    ELSE SplitFrom(s, i + 1, Append(cur, s[i]), acc)

Split(s) == SplitFrom(s, 1, <<>>, <<>>)

\* hay.includes(needle)
Includes(hay, needle) ==
    \E k \in 0..(Len(hay) - Len(needle)) : SubSeq(hay, k + 1, k + Len(needle)) = needle

----------------------------------------------------------------------------
(* Memory records and the storage file *)

NewMemoryNoNullish(input, id, t) ==
    [id |-> id,
     content |-> input.content,
     type |-> IF input.type = Undefined THEN "fact" ELSE input.type[1],
     importance |-> IF input.importance = Undefined \/ input.importance = Some(0)
                    THEN DefaultImportance ELSE input.importance[1],
     createdAt |-> t,
     updatedAt |-> t,
     metadata |-> input.metadata]

\* The object literal built by remember().
NewMemory(input, id, t) ==
    [id |-> id,
     content |-> input.content,
     type |-> IF input.type = Undefined THEN "fact" ELSE input.type[1],
     importance |-> IF input.importance = Undefined
                    THEN DefaultImportance ELSE input.importance[1],
     createdAt |-> t,
     updatedAt |-> t,
     metadata |-> input.metadata]

\* JSON.stringify of one record: a key whose value is undefined is left out.
ToJSON(m) ==
    IF m.metadata = Undefined
    THEN [id |-> m.id, content |-> m.content, type |-> m.type,
          importance |-> m.importance, createdAt |-> m.createdAt,
          updatedAt |-> m.updatedAt]
    ELSE [id |-> m.id, content |-> m.content, type |-> m.type,
          importance |-> m.importance, createdAt |-> m.createdAt,
          updatedAt |-> m.updatedAt, metadata |-> m.metadata[1]]

FromJSONTouched(j) ==
    [id |-> j.id, content |-> j.content, type |-> j.type,
     importance |-> j.importance, createdAt |-> j.createdAt,
     updatedAt |-> j.updatedAt + 1,
     metadata |-> IF "metadata" \in DOMAIN j THEN Some(j.metadata) ELSE Undefined]

\* The record JSON.parse gives back: an absent key reads as undefined.
FromJSON(j) ==
    [id |-> j.id, content |-> j.content, type |-> j.type,
     importance |-> j.importance, createdAt |-> j.createdAt,
     updatedAt |-> j.updatedAt,
     metadata |-> IF "metadata" \in DOMAIN j THEN Some(j.metadata) ELSE Undefined]

\* File contents: no file, text that is not JSON, a JSON object without a
\* memories key, or what save() writes.
FileMissing == [kind |-> "missing", memories |-> <<>>, version |-> 0]
FileMalformed == [kind |-> "malformed", memories |-> <<>>, version |-> 0]
FileNoMemories == [kind |-> "object", memories |-> <<>>, version |-> 0]

StringifyButLast(ms) ==
    [kind |-> "json",
     memories |-> [i \in 1..(Len(ms) - 1) |-> ToJSON(ms[i])],
     version |-> FormatVersion]

\* JSON.stringify({memories, version: 1}, null, 2)
Stringify(ms) ==
    [kind |-> "json",
     memories |-> [i \in 1..Len(ms) |-> ToJSON(ms[i])],
     version |-> FormatVersion]

LoadedAppending(cur, f) ==
    IF f.kind = "json"
    THEN cur \o [i \in 1..Len(f.memories) |-> FromJSON(f.memories[i])]
    ELSE <<>>

\* this.memories after the load in initialize(), cur being its value before.
Loaded(cur, f) ==
    IF f.kind = "missing" THEN cur                      \* existsSync is false
    ELSE IF f.kind = "malformed" THEN <<>>             \* catch: this.memories = []
    ELSE IF f.kind = "object" THEN <<>>                \* data.memories || []
    ELSE [i \in 1..Len(f.memories) |-> FromJSON(f.memories[i])]

----------------------------------------------------------------------------
(* Array primitives *)

\* ms.findIndex(m => m.id === id), counted from 1; 0 stands for -1.
RECURSIVE FindIndexFrom(_, _, _)
FindIndexFrom(ms, id, i) ==
    IF i > Len(ms) THEN 0
    ELSE IF ms[i].id = id THEN i
    ELSE FindIndexFrom(ms, id, i + 1)

FindIndexOrLast(ms, id) ==
    IF FindIndexFrom(ms, id, 1) = 0 THEN Len(ms) ELSE FindIndexFrom(ms, id, 1)

FindIndex(ms, id) == FindIndexFrom(ms, id, 1)

SpliceToEnd(ms, index) == SubSeq(ms, 1, index - 1)

\* ms.splice(index, 1), index counted from 1
Splice(ms, index) == SubSeq(ms, 1, index - 1) \o SubSeq(ms, index + 1, Len(ms))

\* ms.slice(start, end) for start, end >= 0
Slice(ms, start, end) == SubSeq(ms, start + 1, Min(end, Len(ms)))

\* new Date(m.updatedAt).getTime()
GetTime(m) == m.updatedAt

\* One step of the stable sort of list(): m goes behind every record the
\* comparator does not order after it.
RECURSIVE InsertByUpdatedAt(_, _)
InsertByUpdatedAt(sorted, m) ==
    IF sorted = <<>> THEN <<m>>
    ELSE IF GetTime(m) - GetTime(Head(sorted)) > 0
         THEN <<m>> \o sorted
         ELSE <<Head(sorted)>> \o InsertByUpdatedAt(Tail(sorted), m)

\* ms.sort((a, b) => time(b.updatedAt) - time(a.updatedAt)): stable, newest first
RECURSIVE SortByUpdatedAt(_)
SortByUpdatedAt(ms) ==
    IF ms = <<>> THEN <<>>
    ELSE InsertByUpdatedAt(SortByUpdatedAt(SubSeq(ms, 1, Len(ms) - 1)), ms[Len(ms)])

----------------------------------------------------------------------------
(* Local backend: the calls *)

NoCall == [op |-> "none", inst |-> 0, input |-> <<>>, pre |-> <<>>,
           preFile |-> FileMissing, wasReady |-> FALSE, ret |-> <<>>,
           threw |-> FALSE]

Call(op, b, input, ret, threw) ==
    [op |-> op, inst |-> b, input |-> input, pre |-> memories[b],
     preFile |-> file, wasReady |-> ready[b], ret |-> ret, threw |-> threw]

SaveNothing(ms) == file

SaveMerged(ms) ==
    LET NotInFile(m) == \A i \in DOMAIN file.memories : file.memories[i].id # m.id
    IN IF writable
       THEN Stringify(Loaded(<<>>, file) \o SelectSeq(ms, NotInFile))
       ELSE file

\* save(): writeFileSync either rewrites the whole file or throws.
Save(ms) == IF writable THEN Stringify(ms) ELSE file

\* The storage path stops or starts accepting writes (permissions, a full
\* disk): writeFileSync throws while it does not.
SetWritable(w) ==
    /\ writable # w
    /\ writable' = w
    /\ UNCHANGED <<memories, ready, file, now, nextId, last, remoteVars>>

InitializeWritingBack(b) ==
    /\ memories' = [memories EXCEPT ![b] = Loaded(memories[b], file)]
    /\ ready' = [ready EXCEPT ![b] = TRUE]
    /\ file' = Stringify(Loaded(memories[b], file))
    /\ last' = [op |-> "initialize", inst |-> b, input |-> <<>>, pre |-> memories[b],
                preFile |-> file, wasReady |-> ready[b], ret |-> <<>>, threw |-> FALSE]
    /\ UNCHANGED <<writable, now, nextId, remoteVars>>

\* initialize()
Initialize(b) ==
    /\ memories' = [memories EXCEPT ![b] = Loaded(memories[b], file)]
    /\ ready' = [ready EXCEPT ![b] = TRUE]
    /\ last' = Call("initialize", b, <<>>, <<>>, FALSE)
    /\ UNCHANGED <<file, writable, now, nextId, remoteVars>>

\* remember(input): the clock is read, an identifier drawn, the record
\* pushed and the file rewritten.
Remember(b, input) ==
    /\ nextId < MaxIds
    /\ \E t \in now..Min(now + 1, MaxClock) :
         LET memory == NewMemory(input, nextId + 1, t)
             ms == Append(memories[b], memory)
         IN /\ now' = t
            /\ nextId' = nextId + 1
            /\ memories' = [memories EXCEPT ![b] = ms]
            /\ file' = Save(ms)
            /\ last' = Call("remember", b, input,
                            IF writable THEN <<memory>> ELSE <<>>, ~writable)
    /\ UNCHANGED <<ready, writable, remoteVars>>

\* forget(input)
Forget(b, memoryId) ==
    LET index == FindIndex(memories[b], memoryId) IN
    /\ IF index = 0
       THEN /\ last' = Call("forget", b, memoryId, FALSE, FALSE)
            /\ UNCHANGED <<memories, file>>
       ELSE LET ms == Splice(memories[b], index) IN
            /\ memories' = [memories EXCEPT ![b] = ms]
            /\ file' = Save(ms)
            /\ last' = Call("forget", b, memoryId, writable, ~writable)
    /\ UNCHANGED <<ready, writable, now, nextId, remoteVars>>

\* this.memories.find(m => m.id === memoryId) || null
Find(ms, memoryId) ==
    IF FindIndex(ms, memoryId) = 0 THEN Null ELSE <<ms[FindIndex(ms, memoryId)]>>

\* get(memoryId)
Get(b, memoryId) ==
    /\ last' = Call("get", b, memoryId, Find(memories[b], memoryId), FALSE)
    /\ UNCHANGED <<memories, ready, file, writable, now, nextId, remoteVars>>

ListResultEndIsLimit(ms, limit, offset) ==
    LET lim == IF limit = Undefined THEN DefaultListLimit ELSE limit[1]
        off == IF offset = Undefined THEN 0 ELSE offset[1]
    IN Slice(SortByUpdatedAt(ms), off, lim)

\* The array list() returns: the slice of the sorted array.
ListResult(ms, limit, offset) ==
    LET lim == IF limit = Undefined THEN DefaultListLimit ELSE limit[1]
        off == IF offset = Undefined THEN 0 ELSE offset[1]
    IN Slice(SortByUpdatedAt(ms), off, off + lim)

\* list(limit, offset): Array.prototype.sort sorts this.memories in place.
List(b, limit, offset) ==
    /\ memories' = [memories EXCEPT ![b] = SortByUpdatedAt(memories[b])]
    /\ last' = Call("list", b, [limit |-> limit, offset |-> offset],
                    ListResult(memories[b], limit, offset), FALSE)
    /\ UNCHANGED <<ready, file, writable, now, nextId, remoteVars>>

\* The process ends and a new one constructs a backend on the same storage
\* path and initializes it.
Restart(b) ==
    /\ memories' = [memories EXCEPT ![b] = Loaded(<<>>, file)]
    /\ ready' = [ready EXCEPT ![b] = TRUE]
    /\ last' = Call("restart", b, <<>>, <<>>, FALSE)
    /\ UNCHANGED <<file, writable, now, nextId, remoteVars>>

----------------------------------------------------------------------------
(* Local backend: the keyword search engine *)

\* A score is the fraction num/den, den > 0.
ScoreGreater(x, y) == x.num * y.den > y.num * x.den
ScoreEqual(x, y) == x.num * y.den = y.num * x.den
ScorePositive(x) == x.num > 0
ScoreAbove(x, tenths) == x.num * 10 > tenths * x.den
\* x >= tenths/10
ScoreAtLeast(x, tenths) == x.num * 10 >= tenths * x.den

\* text.toLowerCase().split(/\s+/)
Words(text) == Split(ToLowerCase(text))

\* cWord.includes(qWord) || qWord.includes(cWord)
WordsMatch(cWord, qWord) == Includes(cWord, qWord) \/ Includes(qWord, cWord)

\* The inner loop: 1 at the first content word that matches (break), else 0.
RECURSIVE ScanContentWords(_, _, _)
ScanContentWords(qWord, contentWords, j) ==
    IF j > Len(contentWords) THEN 0
    ELSE IF WordsMatch(contentWords[j], qWord) THEN 1
    ELSE ScanContentWords(qWord, contentWords, j + 1)

\* The outer loop: matchCount after the query words from the i-th on.
RECURSIVE MatchCountFrom(_, _, _)
MatchCountFrom(queryWords, contentWords, i) ==
    IF i > Len(queryWords) THEN 0
    ELSE ScanContentWords(queryWords[i], contentWords, 1)
         + MatchCountFrom(queryWords, contentWords, i + 1)

MatchCount(queryWords, contentWords) == MatchCountFrom(queryWords, contentWords, 1)

ScoreTimesImportance(memory, queryWords) ==
    LET matchCount == MatchCount(queryWords, Words(memory.content)) IN
    IF Len(queryWords) > 0
    THEN [num |-> matchCount * 2 * memory.importance, den |-> Len(queryWords) * 20]
    ELSE [num |-> 0, den |-> 1]

\* baseScore * (0.5 + memory.importance * 0.5), with
\* baseScore = queryWords.length > 0 ? matchCount / queryWords.length : 0
Score(memory, queryWords) ==
    LET matchCount == MatchCount(queryWords, Words(memory.content)) IN
    IF Len(queryWords) > 0
    THEN [num |-> matchCount * (10 + memory.importance), den |-> Len(queryWords) * 20]
    ELSE [num |-> 0, den |-> 1]

TypesDefined(types) == types # Undefined

\* options.types?.length is truthy: a list was given and is not empty
TypesGiven(types) == types # Undefined /\ Len(types[1]) > 0

\* options.types!.includes(m.type)
PassesTypes(m, types) == \E i \in DOMAIN types[1] : types[1][i] = m.type

PassesImportanceStrict(m, minImportance) == m.importance > minImportance[1]

\* m.importance >= options.minImportance!
PassesImportance(m, minImportance) == m.importance >= minImportance[1]

\* The two filters of searchMemories.
Filtered(ms, types, minImportance) ==
    LET TypeTest(m) == PassesTypes(m, types)
        ImportanceTest(m) == PassesImportance(m, minImportance)
        byType == IF TypesGiven(types) THEN SelectSeq(ms, TypeTest) ELSE ms
    IN IF minImportance # Undefined THEN SelectSeq(byType, ImportanceTest) ELSE byType

ComesFirstAscending(a, b) == ScoreGreater(b.score, a.score)

\* The comparator (a, b) => b.score - a.score is negative: a sorts before b.
ComesFirst(a, b) == ScoreGreater(a.score, b.score)

\* One step of the stable sort of the results.
RECURSIVE InsertByScore(_, _)
InsertByScore(sorted, r) ==
    IF sorted = <<>> THEN <<r>>
    ELSE IF ComesFirst(r, Head(sorted))
         THEN <<r>> \o sorted
         ELSE <<Head(sorted)>> \o InsertByScore(Tail(sorted), r)

\* results.sort((a, b) => b.score - a.score)
RECURSIVE SortByScore(_)
SortByScore(rs) ==
    IF rs = <<>> THEN <<>>
    ELSE InsertByScore(SortByScore(SubSeq(rs, 1, Len(rs) - 1)), rs[Len(rs)])

\* searchMemories(query, options)
SearchMemories(ms, query, options) ==
    LET queryWords == Words(query)
        limit == IF options.limit = Undefined THEN DefaultSearchLimit ELSE options.limit[1]
        filtered == Filtered(ms, options.types, options.minImportance)
        scored == [i \in 1..Len(filtered) |->
                     [memory |-> filtered[i], score |-> Score(filtered[i], queryWords)]]
        Positive(r) == ScorePositive(r.score)
        AboveFloor(r) == ScoreAtLeast(r.score, options.minScore[1])
        positive == SelectSeq(scored, Positive)
        results == IF options.minScore # Undefined
                   THEN SelectSeq(positive, AboveFloor) ELSE positive
    IN Slice(SortByScore(results), 0, limit)

\* The options object recall() hands to searchMemories: no minScore.
RecallOptions(input) ==
    [limit |-> input.limit, types |-> input.types, minScore |-> Undefined,
     minImportance |-> input.minImportance]

\* The options object search() hands to searchMemories.
SearchOptions(input) ==
    [limit |-> input.limit, types |-> input.types, minScore |-> input.minScore,
     minImportance |-> input.minImportance]

\* recall(input)
Recall(b, input) ==
    /\ last' = Call("recall", b, input,
                    SearchMemories(memories[b], input.query, RecallOptions(input)),
                    FALSE)
    /\ UNCHANGED <<memories, ready, file, writable, now, nextId, remoteVars>>

\* search(input)
Search(b, input) ==
    /\ last' = Call("search", b, input,
                    SearchMemories(memories[b], input.query, SearchOptions(input)),
                    FALSE)
    /\ UNCHANGED <<memories, ready, file, writable, now, nextId, remoteVars>>

----------------------------------------------------------------------------
(* The MCP server: what the tool-call handler returns *)

ToolNames == {"remember", "recall", "forget", "list_memories", "memory_status"}

\* What the handler hands back: the text of its content, isError, and what
\* the backend call it made did ("none" when it made none).  escaped marks a
\* failure that left the handler instead of a payload.
Payload(tool, args, isError, text, outcome) ==
    [tool |-> tool, args |-> args, isError |-> isError, text |-> text,
     outcome |-> outcome, escaped |-> FALSE]

NoReply == Payload("none", <<>>, FALSE, <<>>, "none")

Escapes(tool, args, message) ==
    [tool |-> tool, args |-> args, isError |-> FALSE, text |-> <<>>,
     outcome |-> "threw", escaped |-> TRUE]

\* catch (error): { content: [{text: `Error: ${message}`}], isError: true }
Caught(tool, args, message) ==
    Payload(tool, args, TRUE, <<"Error: ", message>>, "threw")

\* The early return of remember, recall and forget on a missing argument.
Required(tool, args, argument) ==
    Payload(tool, args, TRUE, <<"Error: ", argument, " is required">>, "none")

\* default: { content: [{text: `Unknown tool: ${name}`}], isError: true }
UnknownTool(name, args) ==
    Payload(name, args, TRUE, <<"Unknown tool: ", name>>, "none")

OnlyUndefined(v) == v = Undefined

\* !content, !query: undefined or the empty string
Falsy(v) == v = Undefined \/ v[1] = <<>>

\* !memoryId; identifiers are numbers here, 0 standing for the empty string
FalsyId(v) == v = Undefined \/ v[1] = 0

\* The message of the error writeFileSync throws.
WriteError == "EACCES: permission denied"

\* A call slot the handler has not been invoked for.
Idle == [stage |-> "idle", tool |-> "none", args |-> <<>>, obs |-> <<>>]

Calls == 1..MaxCalls

NoneInFlight == [c \in Calls |-> Idle]

\* Before createMemoryServer has run.
ServerIdle ==
    /\ inflight = NoneInFlight
    /\ pc = "start"
    /\ kind = "local"
    /\ registered = FALSE
    /\ exitCode = Undefined
    /\ reply = NoReply

----------------------------------------------------------------------------
(* Remote backend: one HTTP request per call *)

\* What fetch() gives: a rejection (the service cannot be reached) or a
\* response with a status and a body.  A body has its text(), and json()
\* either parses it or throws.
Unreachable == [kind |-> "rejected", status |-> 0,
                body |-> [text |-> "", json |-> FALSE, status |-> ""]]

Bodies ==
    { [text |-> "{status:ok}", json |-> TRUE, status |-> "ok"],
      [text |-> "{status:degraded}", json |-> TRUE, status |-> "degraded"],
      [text |-> "Internal Server Error", json |-> FALSE, status |-> ""] }

Statuses == {200, 204, 404, 500}

Responses ==
    {Unreachable}
    \cup { [kind |-> "response", status |-> st, body |-> bd] : st \in Statuses, bd \in Bodies }

\* response.ok
Ok(response) == response.status >= 200 /\ response.status <= 299

NoRequest == [op |-> "none", input |-> <<>>, response |-> Unreachable,
              outcome |-> "none", ret |-> <<>>, error |-> ""]

Returned(op, input, response, ret) ==
    [op |-> op, input |-> input, response |-> response,
     outcome |-> "returned", ret |-> ret, error |-> ""]

\* The call throws; error is the response body text the message carries,
\* "" when it carries none.
Threw(op, input, response, error) ==
    [op |-> op, input |-> input, response |-> response,
     outcome |-> "threw", ret |-> <<>>, error |-> error]

\* LH42Backend.initialize(): ready is set only when the health body parses
\* and says "ok"; a rejection or an unparsable body is rethrown.
LH42Initialize(response) ==
    /\ IF response.kind = "rejected" \/ ~response.body.json
       THEN /\ lhLast' = Threw("initialize", <<>>, response, "")
            /\ UNCHANGED lhReady
       ELSE /\ lhLast' = Returned("initialize", <<>>, response, <<>>)
            /\ lhReady' = (IF response.body.status = "ok" THEN TRUE ELSE lhReady)
    /\ UNCHANGED localVars

\* The shape of remember, recall, search and list: throw with the body text
\* unless response.ok, then hand back what the parsed body maps to.
OutcomeOfChecked(op, input, response) ==
    IF response.kind = "rejected" THEN Threw(op, input, response, "")
    ELSE IF ~Ok(response) THEN Threw(op, input, response, response.body.text)
    ELSE IF ~response.body.json THEN Threw(op, input, response, "")
    ELSE Returned(op, input, response, Some(response.body.text))

\* LH42Backend.remember, recall, search and list
LH42Checked(op, input, response) ==
    /\ lhLast' = OutcomeOfChecked(op, input, response)
    /\ UNCHANGED <<lhReady, localVars>>

\* LH42Backend.get(memoryId)
LH42Get(memoryId, response) ==
    /\ lhLast' = IF response.kind = "response" /\ response.status = 404
                 THEN Returned("get", memoryId, response, Null)
                 ELSE OutcomeOfChecked("get", memoryId, response)
    /\ UNCHANGED <<lhReady, localVars>>

\* LH42Backend.forget(input): return response.ok
LH42Forget(memoryId, response) ==
    /\ lhLast' = IF response.kind = "rejected"
                 THEN Threw("forget", memoryId, response, "")
                 ELSE Returned("forget", memoryId, response, Ok(response))
    /\ UNCHANGED <<lhReady, localVars>>

RemoteIds == {"m1", "m2"}

InitRemote ==
    /\ memories = [b \in Inst |-> <<>>]
    /\ ready = [b \in Inst |-> FALSE]
    /\ file = FileMissing
    /\ writable = TRUE
    /\ now = 0
    /\ nextId = 0
    /\ last = NoCall
    /\ lhReady = FALSE
    /\ lhLast = NoRequest
    /\ ServerIdle

NextRemote ==
    \/ \E response \in Responses : LH42Initialize(response) /\ UNCHANGED serverVars
    \/ \E op \in {"remember", "recall", "search", "list"}, response \in Responses :
         LH42Checked(op, <<>>, response) /\ UNCHANGED serverVars
    \/ \E id \in RemoteIds, response \in Responses :
         LH42Get(id, response) /\ UNCHANGED serverVars
    \/ \E id \in RemoteIds, response \in Responses :
         LH42Forget(id, response) /\ UNCHANGED serverVars

SpecRemote == InitRemote /\ [][NextRemote]_vars

----------------------------------------------------------------------------
(* Inputs *)

\* remember inputs: every optional field both given and left out, the
\* importance 0, the empty content.
RememberInputs ==
    { [content |-> <<"a">>, type |-> Undefined, importance |-> Undefined,
       metadata |-> Undefined],
      [content |-> <<"a", " ", "b">>, type |-> Some("task"), importance |-> Some(0),
       metadata |-> Some("m")],
      [content |-> <<>>, type |-> Some("preference"), importance |-> Some(9),
       metadata |-> Undefined] }

\* A store written by an earlier run of the program.
OldStore ==
    << [id |-> 91, content |-> <<"a">>, type |-> "fact", importance |-> 5,
        createdAt |-> 0, updatedAt |-> 0, metadata |-> Undefined],
       [id |-> 92, content |-> <<"b">>, type |-> "task", importance |-> 2,
        createdAt |-> 0, updatedAt |-> 0, metadata |-> Some("m")] >>

InitialFiles == { FileMissing, FileMalformed, FileNoMemories, Stringify(OldStore) }

Ids == (1..MaxIds) \cup {91, 92}
Limits == {Undefined} \cup { Some(n) : n \in 0..MaxLimit }
Offsets == {Undefined} \cup { Some(n) : n \in 0..MaxOffset }

----------------------------------------------------------------------------
(* One process on the storage file *)

Init ==
    /\ memories = [b \in Inst |-> <<>>]
    /\ ready = [b \in Inst |-> FALSE]
    /\ file \in InitialFiles
    /\ writable = TRUE
    /\ now = 0
    /\ nextId = 0
    /\ last = NoCall
    /\ lhReady = FALSE
    /\ lhLast = NoRequest
    /\ ServerIdle

\* The backend used as a library: the server's state stays as it is.
Next ==
    \/ Initialize(1) /\ UNCHANGED serverVars
    \/ \E input \in RememberInputs : Remember(1, input) /\ UNCHANGED serverVars
    \/ \E id \in Ids : Forget(1, id) /\ UNCHANGED serverVars
    \/ \E id \in Ids : Get(1, id) /\ UNCHANGED serverVars
    \/ \E limit \in Limits, offset \in Offsets :
         List(1, limit, offset) /\ UNCHANGED serverVars
    \/ Restart(1) /\ UNCHANGED serverVars

Spec == Init /\ [][Next]_vars

\* One process on a storage path that can refuse writes.
InitDisk ==
    /\ memories = [b \in Inst |-> <<>>]
    /\ ready = [b \in Inst |-> FALSE]
    /\ file \in {FileMissing, Stringify(OldStore)}
    /\ writable = TRUE
    /\ now = 0
    /\ nextId = 0
    /\ last = NoCall
    /\ lhReady = FALSE
    /\ lhLast = NoRequest
    /\ ServerIdle

DiskInputs ==
    { [content |-> <<"a">>, type |-> Undefined, importance |-> Undefined,
       metadata |-> Undefined] }

NextDisk ==
    \/ Initialize(1) /\ UNCHANGED serverVars
    \/ \E input \in DiskInputs : Remember(1, input) /\ UNCHANGED serverVars
    \/ \E id \in Ids : Forget(1, id) /\ UNCHANGED serverVars
    \/ \E id \in Ids : Get(1, id) /\ UNCHANGED serverVars
    \/ \E w \in BOOLEAN : SetWritable(w) /\ UNCHANGED serverVars

SpecDisk == InitDisk /\ [][NextDisk]_vars

\* Two processes, each with a backend of its own on the same storage path:
\* each initializes once, and they remember once both have.
InitTwo ==
    /\ memories = [b \in Inst |-> <<>>]
    /\ ready = [b \in Inst |-> FALSE]
    /\ file \in {FileMissing, Stringify(OldStore)}
    /\ writable = TRUE
    /\ now = 0
    /\ nextId = 0
    /\ last = NoCall
    /\ lhReady = FALSE
    /\ lhLast = NoRequest
    /\ ServerIdle

NextTwo ==
    \/ \E b \in Inst : ~ready[b] /\ Initialize(b) /\ UNCHANGED serverVars
    \/ \E b \in Inst, input \in RememberInputs :
         /\ \A o \in Inst : ready[o]
         /\ Remember(b, input)
         /\ UNCHANGED serverVars

SpecTwo == InitTwo /\ [][NextTwo]_vars

----------------------------------------------------------------------------
(* The MCP server: bootstrap and the tool calls *)

\* What becomes of the process once backend.initialize() has settled: a
\* throw rejects createMemoryServer before any handler is registered and
\* main's catch calls process.exit(1); otherwise the handlers are registered
\* and the server is connected.
BootstrapIgnoringFailure(threw) ==
    [pc |-> "serving", registered |-> TRUE, exitCode |-> Undefined]

BootstrapAgain(threw) ==
    IF threw
    THEN [pc |-> "exited", registered |-> FALSE, exitCode |-> Some(1)]
    ELSE [pc |-> "start", registered |-> TRUE, exitCode |-> Undefined]

Bootstrap(threw) ==
    IF threw
    THEN [pc |-> "exited", registered |-> FALSE, exitCode |-> Some(1)]
    ELSE [pc |-> "serving", registered |-> TRUE, exitCode |-> Undefined]

\* runServer(): createMemoryServer constructs the selected backend and
\* awaits its initialize().
CreateMemoryServer ==
    /\ pc = "start"
    /\ \/ /\ kind = "local"
          /\ Initialize(1)
       \/ /\ kind = "remote"
          /\ \E response \in Responses : LH42Initialize(response)
    /\ LET threw == kind = "remote" /\ lhLast'.outcome = "threw"
       IN /\ pc' = Bootstrap(threw).pc
          /\ registered' = Bootstrap(threw).registered
          /\ exitCode' = Bootstrap(threw).exitCode
    /\ UNCHANGED <<kind, reply, inflight>>

\* What the awaited backend call did, read after the call.
Observed ==
    IF kind = "local"
    THEN [threw |-> last'.threw, message |-> WriteError, ret |-> last'.ret]
    ELSE [threw |-> lhLast'.outcome = "threw", message |-> lhLast'.error,
          ret |-> lhLast'.ret]

\* The text of the payload a tool returns when its backend call returned.
SuccessText(tool, ret) ==
    CASE tool = "remember" -> <<"Memory stored successfully">>
      [] tool = "recall" ->
            IF ret = <<>> THEN <<"No relevant memories found.">> ELSE <<"memories">>
      [] tool = "forget" ->
            IF ret = TRUE THEN <<"deleted successfully.">> ELSE <<"not found.">>
      [] tool = "list_memories" ->
            IF ret = <<>> THEN <<"No memories stored yet.">> ELSE <<"memories">>
      [] OTHER -> <<"status">>

\* try { ... return payload } catch (error) { return error payload }
Handled(tool, args, obs) ==
    IF obs.threw
    THEN Caught(tool, args, obs.message)
    ELSE Payload(tool, args, FALSE, SuccessText(tool, obs.ret), "returned")

\* case "remember"
ToolRemember(args) ==
    /\ pc = "serving"
    /\ IF Falsy(args.content)
       THEN /\ reply' = Required("remember", args, "content")
            /\ UNCHANGED <<localVars, remoteVars>>
       ELSE LET input == [content |-> args.content[1],
                          type |-> IF args.type # Undefined THEN args.type
                                   ELSE Some("fact"),
                          importance |-> IF args.importance # Undefined
                                         THEN args.importance
                                         ELSE Some(ToolDefaultImportance),
                          metadata |-> Undefined]
            IN /\ \/ /\ kind = "local"
                     /\ Remember(1, input)
                  \/ /\ kind = "remote"
                     /\ \E response \in Responses :
                          LH42Checked("remember", input, response)
               /\ reply' = Handled("remember", args, Observed)
    /\ UNCHANGED <<inflight, pc, kind, registered, exitCode>>

\* case "recall"
ToolRecall(args) ==
    /\ pc = "serving"
    /\ IF Falsy(args.query)
       THEN /\ reply' = Required("recall", args, "query")
            /\ UNCHANGED <<localVars, remoteVars>>
       ELSE LET input == [query |-> args.query[1],
                          limit |-> IF args.limit # Undefined THEN args.limit
                                    ELSE Some(ToolRecallLimit),
                          types |-> args.types,
                          minImportance |-> Undefined]
            IN /\ \/ /\ kind = "local"
                     /\ Recall(1, input)
                  \/ /\ kind = "remote"
                     /\ \E response \in Responses :
                          LH42Checked("recall", input, response)
               /\ reply' = Handled("recall", args, Observed)
    /\ UNCHANGED <<inflight, pc, kind, registered, exitCode>>

\* case "forget"
ToolForget(args) ==
    /\ pc = "serving"
    /\ IF FalsyId(args.memoryId)
       THEN /\ reply' = Required("forget", args, "memoryId")
            /\ UNCHANGED <<localVars, remoteVars>>
       ELSE /\ \/ /\ kind = "local"
                  /\ Forget(1, args.memoryId[1])
               \/ /\ kind = "remote"
                  /\ \E response \in Responses :
                       LH42Forget(args.memoryId[1], response)
            /\ reply' = Handled("forget", args, Observed)
    /\ UNCHANGED <<inflight, pc, kind, registered, exitCode>>

\* case "list_memories"
ToolListMemories(args) ==
    /\ pc = "serving"
    /\ LET limit == IF args.limit # Undefined THEN args.limit
                    ELSE Some(ToolListLimit)
       IN \/ /\ kind = "local"
             /\ List(1, limit, Undefined)
          \/ /\ kind = "remote"
             /\ \E response \in Responses : LH42Checked("list", limit, response)
    /\ reply' = Handled("list_memories", args, Observed)
    /\ UNCHANGED <<inflight, pc, kind, registered, exitCode>>

\* case "memory_status": backend.info() reads the backend and calls nothing
ToolMemoryStatus ==
    /\ pc = "serving"
    /\ reply' = Payload("memory_status", <<>>, FALSE, SuccessText("memory_status", <<>>),
                        "returned")
    /\ UNCHANGED <<inflight, pc, kind, registered, exitCode, localVars, remoteVars>>

\* default: a name that is no tool
ToolUnknown(name, args) ==
    /\ pc = "serving"
    /\ name \notin ToolNames
    /\ reply' = UnknownTool(name, args)
    /\ UNCHANGED <<inflight, pc, kind, registered, exitCode, localVars, remoteVars>>

\* Arguments of the tool calls: absent, empty and given.
RememberArgs ==
    { [content |-> c, type |-> t, importance |-> i] :
        c \in {Undefined, Some(<<>>), Some(<<"a">>)},
        t \in {Undefined},
        i \in {Undefined} }

RecallArgs ==
    { [query |-> q, limit |-> Undefined, types |-> Undefined] :
        q \in {Undefined, Some(<<>>), Some(<<"a">>)} }

ForgetArgs ==
    { [memoryId |-> id] : id \in {Undefined, Some(0), Some(1), Some(91)} }

ListArgs == { [limit |-> l] : l \in {Undefined, Some(1)} }

UnknownNames == {"search", ""}

InitServer ==
    /\ memories = [b \in Inst |-> <<>>]
    /\ ready = [b \in Inst |-> FALSE]
    /\ file \in {FileMissing, Stringify(OldStore)}
    /\ writable = TRUE
    /\ now = 0
    /\ nextId = 0
    /\ last = NoCall
    /\ lhReady = FALSE
    /\ lhLast = NoRequest
    /\ pc = "start"
    /\ kind \in {"local", "remote"}
    /\ registered = FALSE
    /\ exitCode = Undefined
    /\ reply = NoReply
    /\ inflight = NoneInFlight

NextServer ==
    \/ CreateMemoryServer
    \/ \E args \in RememberArgs : ToolRemember(args)
    \/ \E args \in RecallArgs : ToolRecall(args)
    \/ \E args \in ForgetArgs : ToolForget(args)
    \/ \E args \in ListArgs : ToolListMemories(args)
    \/ ToolMemoryStatus
    \/ \E name \in UnknownNames : ToolUnknown(name, <<>>)
    \/ \E w \in BOOLEAN : SetWritable(w) /\ UNCHANGED serverVars

SpecServer == InitServer /\ [][NextServer]_vars

----------------------------------------------------------------------------
(* The MCP server: several tool calls in flight on the local backend *)

\* The input the remember tool builds from its arguments.
ToolRememberInput(args) ==
    [content |-> args.content[1],
     type |-> IF args.type # Undefined THEN args.type ELSE Some("fact"),
     importance |-> IF args.importance # Undefined THEN args.importance
                    ELSE Some(ToolDefaultImportance),
     metadata |-> Undefined]

\* The handler is invoked for a call and runs to its first await.  For
\* remember and a forget that finds its record that is `await this.save()`,
\* reached after the push or splice and the writeFileSync inside save();
\* for list and a forget that finds nothing it is the handler's own await
\* of the backend call.
Dispatch(c, tool, args) ==
    /\ pc = "serving"
    /\ kind = "local"
    /\ inflight[c].stage = "idle"
    /\ CASE tool = "remember" -> Remember(1, ToolRememberInput(args))
         [] tool = "forget" -> Forget(1, args.memoryId[1])
         [] OTHER -> List(1, IF args.limit # Undefined THEN args.limit
                             ELSE Some(ToolListLimit), Undefined)
    /\ inflight' = [inflight EXCEPT ![c] =
                      [stage |-> IF memories' # memories /\ tool # "list_memories"
                                 THEN "awaitingSave" ELSE "awaitingBackend",
                       tool |-> tool, args |-> args, obs |-> Observed]]
    /\ UNCHANGED <<pc, kind, registered, exitCode, reply>>

\* save()'s promise settles: the backend method resumes, logs and returns.
ResumeBackend(c) ==
    /\ inflight[c].stage = "awaitingSave"
    /\ inflight' = [inflight EXCEPT ![c].stage = "awaitingBackend"]
    /\ UNCHANGED <<localVars, remoteVars, pc, kind, registered, exitCode, reply>>

\* The backend call's promise settles: the handler resumes and returns its
\* payload.
ResumeHandler(c) ==
    /\ inflight[c].stage = "awaitingBackend"
    /\ inflight' = [inflight EXCEPT ![c].stage = "done"]
    /\ reply' = Handled(inflight[c].tool, inflight[c].args, inflight[c].obs)
    /\ UNCHANGED <<localVars, remoteVars, pc, kind, registered, exitCode>>

AsyncRememberArgs ==
    { [content |-> Some(<<"a">>), type |-> Undefined, importance |-> Undefined] }

AsyncForgetArgs == { [memoryId |-> Some(id)] : id \in {1, 91} }

AsyncListArgs == { [limit |-> Undefined] }

\* A server on the local backend, after createMemoryServer.
InitAsync ==
    /\ \E f \in {FileMissing, Stringify(OldStore)} :
         /\ file = f
         /\ memories = [b \in Inst |-> IF b = 1 THEN Loaded(<<>>, f) ELSE <<>>]
    /\ ready = [b \in Inst |-> b = 1]
    /\ writable = TRUE
    /\ now = 0
    /\ nextId = 0
    /\ last = NoCall
    /\ lhReady = FALSE
    /\ lhLast = NoRequest
    /\ pc = "serving"
    /\ kind = "local"
    /\ registered = TRUE
    /\ exitCode = Undefined
    /\ reply = NoReply
    /\ inflight = NoneInFlight

NextAsync ==
    \/ \E c \in Calls, args \in AsyncRememberArgs : Dispatch(c, "remember", args)
    \/ \E c \in Calls, args \in AsyncForgetArgs : Dispatch(c, "forget", args)
    \/ \E c \in Calls, args \in AsyncListArgs : Dispatch(c, "list_memories", args)
    \/ \E c \in Calls : ResumeBackend(c)
    \/ \E c \in Calls : ResumeHandler(c)

SpecAsync == InitAsync /\ [][NextAsync]_vars

----------------------------------------------------------------------------
(* Properties of the local backend's store operations *)

Range(seq) == { seq[i] : i \in DOMAIN seq }
Count(seq, r) == Cardinality({ i \in DOMAIN seq : seq[i] = r })

\* The two sequences hold the same records, each as often.
SameRecords(s, t) ==
    /\ Len(s) = Len(t)
    /\ \A r \in Range(s) \cup Range(t) : Count(s, r) = Count(t, r)

HasId(ms, id) == \E i \in DOMAIN ms : ms[i].id = id

\* C1: on an initialized local backend, get(id) right after remember(input)
\* returns a record with the content given, an id that no other record of
\* the store has, the type given or "fact", and the importance given (0
\* included) or 0.5.
C1_RememberGetRoundTrip ==
    (last.op = "remember" /\ last.wasReady /\ ~last.threw) =>
        LET input == last.input
            id == last.ret[1].id
            got == Find(memories[last.inst], id)
        IN /\ got # Null
           /\ got[1].content = input.content
           /\ got[1].id = id
           /\ Cardinality({ i \in DOMAIN memories[last.inst] :
                              memories[last.inst][i].id = id }) = 1
           /\ got[1].type = (IF input.type = Undefined THEN "fact" ELSE input.type[1])
           /\ got[1].importance =
                (IF input.importance = Undefined THEN 5 ELSE input.importance[1])

\* remember with importance 0 and a type, into a store that holds records
C1_Witness ==
    /\ last.op = "remember" /\ last.wasReady /\ ~last.threw
    /\ last.input.importance = Some(0)
    /\ last.input.type = Some("task")
    /\ Len(last.pre) >= 2
    /\ Find(memories[last.inst], last.ret[1].id)[1].importance = 0

\* C2: forget(id) of an id in the store returns true and removes that one
\* record, the others keeping their order; no record has the id afterwards,
\* and forget of an id no record has returns false and changes neither the
\* store nor the file, which is what the second forget(id) meets.
C2_ForgetRemovesExactlyOne ==
    (last.op = "forget" /\ ~last.threw) =>
        LET pre == last.pre
            post == memories[last.inst]
            id == last.input
        IN IF HasId(pre, id)
           THEN /\ last.ret = TRUE
                /\ \E i \in DOMAIN pre :
                     /\ pre[i].id = id
                     /\ Len(post) = Len(pre) - 1
                     /\ \A k \in DOMAIN post :
                          post[k] = IF k < i THEN pre[k] ELSE pre[k + 1]
                /\ ~HasId(post, id)
           ELSE /\ last.ret = FALSE
                /\ post = pre
                /\ file = last.preFile

\* forget of the first of three records
C2_Witness ==
    /\ last.op = "forget" /\ last.ret = TRUE
    /\ Len(last.pre) >= 3
    /\ last.pre[1].id = last.input
    /\ memories[last.inst] = Tail(last.pre)

C8_ListPagination ==
    (last.op = "list") =>
        LET pre == last.pre
            ret == last.ret
            lim == IF last.input.limit = Undefined THEN 20 ELSE last.input.limit[1]
            off == IF last.input.offset = Undefined THEN 0 ELSE last.input.offset[1]
            Newer(r) == Cardinality({ j \in DOMAIN pre : pre[j].updatedAt > r.updatedAt })
            NotOlder(r) == Cardinality({ j \in DOMAIN pre : pre[j].updatedAt >= r.updatedAt })
        IN /\ Len(ret) = Max(0, Min(lim, Len(pre) - off))
           /\ \A k \in DOMAIN ret :
                /\ ret[k] \in Range(pre)
                /\ Newer(ret[k]) < off + k
                /\ off + k <= NotOlder(ret[k])
           /\ \A k, l \in DOMAIN ret : k # l => ret[k].id # ret[l].id

\* list(2, 1) on a store that is not in order: the 2nd and 3rd newest
C8_Witness ==
    /\ last.op = "list"
    /\ last.input = [limit |-> Some(2), offset |-> Some(1)]
    /\ Len(last.pre) >= 4
    /\ last.pre # memories[last.inst]
    /\ Len(last.ret) = 2
    /\ last.ret[1].updatedAt > last.ret[2].updatedAt

----------------------------------------------------------------------------
(* The search engine on bounded stores and queries *)

\* content, type, importance (in tenths) of the records searched: words in
\* both cases, a leading and a trailing blank, equal contents with
\* different importances, an importance outside [0, 1].
SearchRecords ==
    { [content |-> <<"a", " ", "b">>, type |-> "fact", importance |-> 5],
      [content |-> <<"a", " ", "b">>, type |-> "task", importance |-> 2],
      [content |-> <<"a", " ", "b">>, type |-> "fact", importance |-> 9],
      [content |-> <<"A", "b">>, type |-> "task", importance |-> 0],
      [content |-> <<"c", " ">>, type |-> "fact", importance |-> 5],
      [content |-> <<"b">>, type |-> "preference", importance |-> 10],
      [content |-> <<" ", "b">>, type |-> "fact", importance |-> 5],
      [content |-> <<"a">>, type |-> "task", importance |-> -30] }

\* The record remember() made of r as the i-th of a store.
Stored(r, i) ==
    [id |-> i, content |-> r.content, type |-> r.type, importance |-> r.importance,
     createdAt |-> 0, updatedAt |-> 0, metadata |-> Undefined]

SearchStores ==
    UNION { { [i \in 1..n |-> Stored(f[i], i)] : f \in [1..n -> SearchRecords] } :
            n \in 0..MaxStore }

\* A store of more records than the default limit of recall and search.
LargeStore ==
    LET rs == << [content |-> <<"a", " ", "b">>, type |-> "fact", importance |-> 5],
                 [content |-> <<"A", "b">>, type |-> "task", importance |-> 0],
                 [content |-> <<"a">>, type |-> "task", importance |-> 9],
                 [content |-> <<"b">>, type |-> "preference", importance |-> 10],
                 [content |-> <<"a", " ", "b">>, type |-> "task", importance |-> 2],
                 [content |-> <<"a", " ", "c">>, type |-> "fact", importance |-> 9],
                 [content |-> <<"b", " ", "a">>, type |-> "fact", importance |-> 7] >>
    IN [i \in 1..Len(rs) |-> Stored(rs[i], i)]

Queries ==
    { <<>>, <<"a">>, <<"B", " ", "c">>, <<"d", " ">>, <<"a", "b">> }

SearchLimits == {Undefined} \cup { Some(n) : n \in 0..MaxSearchLimit }
TypeLists == { Undefined, Some(<<>>), Some(<<"task">>), Some(<<"fact", "task">>) }
MinImportances == { Undefined, Some(0), Some(5) }
MinScores == { Undefined, Some(5) }

RecallInputs ==
    { [query |-> q, limit |-> l, types |-> ts, minImportance |-> mi] :
        q \in Queries, l \in SearchLimits, ts \in TypeLists, mi \in MinImportances }

SearchInputs ==
    { [query |-> q, limit |-> l, types |-> ts, minScore |-> sc, minImportance |-> mi] :
        q \in Queries, l \in SearchLimits, ts \in TypeLists, sc \in MinScores,
        mi \in MinImportances }

\* An initialized backend that holds one of the stores.
InitSearch ==
    /\ \E ms \in SearchStores \cup {LargeStore} :
         /\ memories = [b \in Inst |-> IF b = 1 THEN ms ELSE <<>>]
         /\ file = Stringify(ms)
         /\ nextId = Len(ms)
    /\ ready = [b \in Inst |-> b = 1]
    /\ writable = TRUE
    /\ now = 0
    /\ last = NoCall
    /\ lhReady = FALSE
    /\ lhLast = NoRequest
    /\ ServerIdle

\* recall and search leave everything but the record of the call as it was,
\* so one call on each store and input covers every call.
NextSearch ==
    \/ \E input \in RecallInputs :
         last = NoCall /\ Recall(1, input) /\ UNCHANGED serverVars
    \/ \E input \in SearchInputs :
         last = NoCall /\ Search(1, input) /\ UNCHANGED serverVars

SpecSearch == InitSearch /\ [][NextSearch]_vars

----------------------------------------------------------------------------
(* Properties of the search engine *)

IsSearchCall == last.op \in {"recall", "search"}

\* The score floor of the call: recall has none.
FloorOf(call) == IF call.op = "search" THEN call.input.minScore ELSE Undefined

LimitOf(call) == IF call.input.limit = Undefined THEN 5 ELSE call.input.limit[1]

\* C4: recall/search with a non-empty list of types returns only records of
\* a type in the list, with minImportance = m only records of importance
\* >= m, and the filters drop no record that passes both and scores above 0
\* (and not below the score floor): short of the limit, every such record of
\* the store is returned.
C4_FiltersKeepExactlyTheMatching ==
    IsSearchCall =>
        LET input == last.input
            ret == last.ret
            InTypes(m) == \E i \in DOMAIN input.types[1] : input.types[1][i] = m.type
            Wanted(m) ==
                /\ (input.types # Undefined /\ input.types[1] # <<>>) => InTypes(m)
                /\ input.minImportance # Undefined => m.importance >= input.minImportance[1]
            Scores(m) ==
                LET sc == Score(m, Words(input.query)) IN
                /\ ScorePositive(sc)
                /\ FloorOf(last) # Undefined => ScoreAtLeast(sc, FloorOf(last)[1])
        IN /\ \A k \in DOMAIN ret : Wanted(ret[k].memory)
           /\ Len(ret) < LimitOf(last) =>
                \A i \in DOMAIN last.pre :
                    (Wanted(last.pre[i]) /\ Scores(last.pre[i])) =>
                        \E k \in DOMAIN ret : ret[k].memory = last.pre[i]

\* both filters given, a record at the importance floor kept, another dropped
C4_Witness ==
    /\ last.op = "recall"
    /\ last.input.types = Some(<<"task">>)
    /\ last.input.minImportance = Some(0)
    /\ Len(last.pre) = 2
    /\ Len(last.ret) = 1
    /\ last.ret[1].memory.importance = 0
    /\ last.pre[1].type = "fact"

\* The words of a text: its lower-cased maximal runs of non-blank characters.
WordsOf(text) ==
    LET NonEmpty(w) == w # <<>> IN SelectSeq(Split(ToLowerCase(text)), NonEmpty)

\* (query words that are part of, or contain, a content word) / (query
\* words) * (0.5 + 0.5 * importance), 0 for a query without words.
StatedScore(m, query) ==
    LET qs == WordsOf(query)
        cs == WordsOf(m.content)
        matched == { i \in DOMAIN qs :
                       \E j \in DOMAIN cs : Includes(cs[j], qs[i]) \/ Includes(qs[i], cs[j]) }
    IN IF qs = <<>> THEN [num |-> 0, den |-> 1]
       ELSE [num |-> Cardinality(matched) * (10 + m.importance), den |-> Len(qs) * 20]

\* C5: the score attached to every record returned is the stated score of
\* the record for the query, and a record is returned only with a stated
\* score above 0.
C5_ScoreIsStatedScore ==
    IsSearchCall =>
        \A k \in DOMAIN last.ret :
            /\ ScoreEqual(last.ret[k].score, StatedScore(last.ret[k].memory, last.input.query))
            /\ ScorePositive(StatedScore(last.ret[k].memory, last.input.query))

\* C6: the results are in order of score, highest first, and of two results
\* with the same match ratio the one of higher importance comes first.
C6_ResultsOrderedByScore ==
    IsSearchCall =>
        LET ret == last.ret
            qw == Words(last.input.query)
            Matched(m) == MatchCount(qw, Words(m.content))
        IN \A k, l \in DOMAIN ret :
            /\ k < l => ~ScoreGreater(ret[l].score, ret[k].score)
            /\ (Matched(ret[k].memory) = Matched(ret[l].memory)
                 /\ ret[k].memory.importance > ret[l].memory.importance) => k < l

\* importances 0.2 and 0.9 on the same content, stored in that order
C6_Witness ==
    /\ last.op = "recall"
    /\ Len(last.ret) = 2
    /\ last.pre[1].importance = 2 /\ last.pre[2].importance = 9
    /\ last.pre[1].content = last.pre[2].content
    /\ last.ret[1].memory = last.pre[2]
    /\ last.ret[2].memory = last.pre[1]

\* C7: recall with the empty string as query returns no results.
C7_EmptyQueryReturnsNothing ==
    (last.op = "recall" /\ last.input.query = <<>>) => last.ret = <<>>

----------------------------------------------------------------------------
(* Properties of initialize and of the remote calls *)

\* C9 (local backend): isReady() is true after an initialize() that returned.
LocalReadyAfterInitialize ==
    (last.op \in {"initialize", "restart"} /\ ~last.threw) => ready[last.inst]

\* C9: for both backends, isReady() is true after every initialize() call
\* that returned without a failure.
C9_ReadyAfterInitialize ==
    /\ LocalReadyAfterInitialize
    /\ (lhLast.op = "initialize" /\ lhLast.outcome = "returned") => lhReady

\* C9: isReady() changes only from false to true, and only in initialize().
ReadyOnlyRises ==
    [][/\ lhReady => lhReady'
       /\ lhReady' # lhReady => lhLast'.op = "initialize"
       /\ \A b \in Inst : ready[b] => ready'[b]
       /\ \A b \in Inst : ready'[b] # ready[b] => last'.op \in {"initialize", "restart"}]_vars

\* C10: every remote remember, recall, search, forget, get and list fails
\* on a non-2xx response with an error that carries the response body text,
\* except get, which returns null on a 404.
C10_Non2xxFails ==
    (lhLast.op \in {"remember", "recall", "search", "forget", "get", "list"}
       /\ lhLast.response.kind = "response"
       /\ ~(lhLast.response.status \in 200..299)) =>
        IF lhLast.op = "get" /\ lhLast.response.status = 404
        THEN lhLast.outcome = "returned" /\ lhLast.ret = Null
        ELSE lhLast.outcome = "threw" /\ lhLast.error = lhLast.response.body.text

\* C10, all calls but forget
Non2xxFailsButForget == lhLast.op # "forget" => C10_Non2xxFails

----------------------------------------------------------------------------
(* Properties of recall and search: score floor, limit, types, score range *)

\* score >= tenths/10, on the fraction
AtLeastTenths(score, tenths) == score.num * 10 >= tenths * score.den

\* C13: search without minScore returns the sequence recall returns for the
\* same arguments, and search with minScore = s returns the entries of that
\* sequence whose score is >= s, in the same order.
C13_SearchIsRecallAboveFloor ==
    (last.op = "search") =>
        LET input == last.input
            recalled == SearchMemories(last.pre, input.query,
                            RecallOptions([query |-> input.query, limit |-> input.limit,
                                           types |-> input.types,
                                           minImportance |-> input.minImportance]))
            Kept(r) == AtLeastTenths(r.score, input.minScore[1])
        IN IF input.minScore = Undefined
           THEN last.ret = recalled
           ELSE last.ret = SelectSeq(recalled, Kept)

\* a floor of 0.5 keeps a result that scores exactly 0.5 and drops another
C13_Witness ==
    /\ last.op = "search"
    /\ last.input.minScore = Some(5)
    /\ last.input.limit = Undefined
    /\ Len(last.ret) = 1
    /\ last.ret[1].score.num * 2 = last.ret[1].score.den
    /\ Len(SearchMemories(last.pre, last.input.query,
                          [limit |-> Undefined, types |-> last.input.types,
                           minScore |-> Undefined,
                           minImportance |-> last.input.minImportance])) = 2

\* The records of the store that the call's filters and score floor let
\* through, by position.
Matching(call) ==
    LET input == call.input
        InTypes(m) == \E i \in DOMAIN input.types[1] : input.types[1][i] = m.type
        sc(m) == Score(m, Words(input.query))
    IN { i \in DOMAIN call.pre :
           /\ (input.types # Undefined /\ input.types[1] # <<>>) => InTypes(call.pre[i])
           /\ input.minImportance # Undefined =>
                call.pre[i].importance >= input.minImportance[1]
           /\ sc(call.pre[i]).num > 0
           /\ FloorOf(call) # Undefined => AtLeastTenths(sc(call.pre[i]), FloorOf(call)[1]) }

\* C18: recall/search returns min(limit, matching records) results, 5 being
\* the limit when none is given, and they are the first of the score order:
\* no matching record left out scores higher than a returned one.
C18_LimitTruncates ==
    IsSearchCall =>
        LET ret == last.ret
            lim == IF last.input.limit = Undefined THEN 5 ELSE last.input.limit[1]
            matching == Matching(last)
            returned == { i \in matching : \E k \in DOMAIN ret : ret[k].memory = last.pre[i] }
        IN /\ Len(ret) = Min(lim, Cardinality(matching))
           /\ Len(ret) <= lim
           /\ Cardinality(returned) = Len(ret)
           /\ \A k \in DOMAIN ret : \A i \in matching \ returned :
                ~ScoreGreater(Score(last.pre[i], Words(last.input.query)), ret[k].score)

\* no limit given, more than 5 records match, 5 are returned
C18_Witness ==
    /\ IsSearchCall
    /\ last.input.limit = Undefined
    /\ Cardinality(Matching(last)) > 5
    /\ Len(last.ret) = 5

\* C19 as stated: whenever a list of types is given, the empty one included,
\* every returned record has a type of the list.
C19_TypesGivenAreKept ==
    (IsSearchCall /\ last.input.types # Undefined) =>
        \A k \in DOMAIN last.ret :
            \E i \in DOMAIN last.input.types[1] :
                last.input.types[1][i] = last.ret[k].memory.type

\* C19 as amended: with a non-empty list of types every returned record has
\* a type of the list; an empty list filters nothing, the call returns what
\* it returns without types.
C19_NonEmptyTypesAreKept ==
    (IsSearchCall /\ last.input.types # Undefined) =>
        IF last.input.types[1] # <<>>
        THEN \A k \in DOMAIN last.ret :
                \E i \in DOMAIN last.input.types[1] :
                    last.input.types[1][i] = last.ret[k].memory.type
        ELSE last.ret = SearchMemories(last.pre, last.input.query,
                            [limit |-> last.input.limit, types |-> Undefined,
                             minScore |-> FloorOf(last),
                             minImportance |-> last.input.minImportance])

\* the empty list of types, and a record is returned
C19_Witness ==
    /\ IsSearchCall
    /\ last.input.types = Some(<<>>)
    /\ last.ret # <<>>

\* C20: for a record of importance in [0, 1] the score lies between half
\* the match ratio and the match ratio, which is at most 1; a returned score
\* is above 0, at most 1 for such a record, and never negative.
C20_ScoreRange ==
    IsSearchCall =>
        LET qw == Words(last.input.query)
            n == Len(qw)
        IN /\ \A i \in DOMAIN last.pre :
                LET m == last.pre[i]
                    mc == MatchCount(qw, Words(m.content))
                    sc == Score(m, qw)
                IN (m.importance >= 0 /\ m.importance <= 10) =>
                     /\ mc <= n
                     /\ sc.num * 2 * n >= mc * sc.den
                     /\ sc.num * n <= mc * sc.den
           /\ \A k \in DOMAIN last.ret :
                /\ last.ret[k].score.num > 0
                /\ last.ret[k].score.den > 0
                /\ (last.ret[k].memory.importance >= 0
                      /\ last.ret[k].memory.importance <= 10) =>
                     last.ret[k].score.num <= last.ret[k].score.den

\* a partial match on a record of importance 0.2, and a record of negative
\* importance that matches and is not returned
C20_Witness ==
    /\ last.op = "recall"
    /\ Len(last.pre) = 2
    /\ last.pre[1].importance = 2
    /\ last.pre[2].importance < 0
    /\ MatchCount(Words(last.input.query), Words(last.pre[2].content)) > 0
    /\ Len(last.ret) = 1
    /\ last.ret[1].score.num * 10 = 3 * last.ret[1].score.den

----------------------------------------------------------------------------
(* Properties of the store and its file: absent ids, the file after a     *)
(* mutation, calls that only read                                          *)

\* C15: forget and get of an id no stored record has return false and null,
\* do not throw, and leave the in-memory sequence and the storage file as
\* they were, even while the storage path refuses writes.
C15_AbsentIdChangesNothing ==
    (/\ last.op \in {"forget", "get"}
     /\ ~\E i \in DOMAIN last.pre : last.pre[i].id = last.input) =>
        /\ last.op = "forget" => last.ret = FALSE
        /\ last.op = "get" => last.ret = Null
        /\ ~last.threw
        /\ memories[last.inst] = last.pre
        /\ file = last.preFile

\* forget of an absent id on a non-empty store while writes are refused
C15_Witness ==
    /\ last.op = "forget"
    /\ last.pre # <<>>
    /\ \A i \in DOMAIN last.pre : last.pre[i].id # last.input
    /\ ~writable
    /\ last.ret = FALSE

\* C16: when a successful remember, or a forget that removed a record,
\* returns, the file has been rewritten and parses to the in-memory
\* sequence, same records in the same order.
C16_FileHoldsSequenceOnReturn ==
    (/\ last.op \in {"remember", "forget"}
     /\ ~last.threw
     /\ last.op = "forget" => last.ret = TRUE) =>
        /\ file.kind = "json"
        /\ file # last.preFile
        /\ Loaded(<<>>, file) = memories[last.inst]

\* a forget that leaves one record, after list() had reordered the array
C16_Witness ==
    /\ last.op = "forget"
    /\ last.ret = TRUE
    /\ Len(last.pre) = 2
    /\ last.preFile.kind = "json"
    /\ Loaded(<<>>, last.preFile) # last.pre
    /\ Len(memories[last.inst]) = 1

\* C17: list, get, recall and search leave the in-memory sequence, the
\* order of its records included, as it was.
C17_ReadsLeaveSequence ==
    (last.op \in {"list", "get", "recall", "search"}) =>
        memories[last.inst] = last.pre

----------------------------------------------------------------------------
(* Properties of the server: failures at the tool boundary, validation,   *)
(* failure at bootstrap                                                    *)

\* C11: whatever the tool and the arguments, a failure of the backend call
\* comes back as a payload with isError and the failure's message, never
\* leaves the handler, an unknown tool name gives an isError payload too,
\* and the server goes on serving.
C11_FailuresBecomeErrorPayloads ==
    (reply # NoReply) =>
        /\ ~reply.escaped
        /\ pc = "serving"
        /\ registered
        /\ reply.outcome = "threw" =>
             /\ reply.isError
             /\ Len(reply.text) = 2
             /\ reply.text[1] = "Error: "
             /\ reply.text[2] = (IF kind = "local" THEN WriteError ELSE lhLast.error)
        /\ reply.tool \notin ToolNames =>
             /\ reply.isError
             /\ reply.text = <<"Unknown tool: ", reply.tool>>

\* a remember whose file write failed, answered with an error payload
C11_Witness ==
    /\ kind = "local"
    /\ reply.tool = "remember"
    /\ reply.outcome = "threw"
    /\ last.op = "remember"
    /\ last.threw
    /\ reply.isError
    /\ pc = "serving"

\* The handler's latest call lacked its required argument.
MissingArgument(r) ==
    \/ r.tool = "remember" /\ (r.args.content = Undefined \/ r.args.content = Some(<<>>))
    \/ r.tool = "recall" /\ (r.args.query = Undefined \/ r.args.query = Some(<<>>))
    \/ r.tool = "forget" /\ (r.args.memoryId = Undefined \/ r.args.memoryId = Some(0))

\* C12: a remember without content, a recall without query and a forget
\* without memoryId return an error payload, and the step that serves them
\* invokes no backend operation: the records, the file and the record of
\* the latest backend call stay as they were.
C12_MissingArgumentInvokesNothing ==
    [][ MissingArgument(reply') =>
          /\ reply'.isError
          /\ reply'.outcome = "none"
          /\ UNCHANGED <<memories, ready, file, now, nextId, last, lhReady, lhLast>> ]_vars

\* remember with empty content refused while a record is stored
C12_Witness ==
    /\ reply.tool = "remember"
    /\ reply.args.content = Some(<<>>)
    /\ reply.isError
    /\ kind = "local"
    /\ memories[1] # <<>>
    /\ last.op # "remember"

\* C14: with the remote backend selected and the health request rejected,
\* initialize() throws, no handler is registered, the process exits with a
\* non-zero status, and no tool call is served in that run.
C14_UnreachableServiceAbortsStartup ==
    /\ (kind = "remote" /\ lhLast.op = "initialize" /\ lhLast.response.kind = "rejected") =>
         /\ lhLast.outcome = "threw"
         /\ pc = "exited"
         /\ ~registered
         /\ exitCode # Undefined
         /\ exitCode[1] # 0
    /\ pc = "exited" => (reply = NoReply /\ ~registered)
    /\ reply # NoReply => pc = "serving"

\* the remote service could not be reached and the process has exited
C14_Witness ==
    /\ kind = "remote"
    /\ lhLast.op = "initialize"
    /\ lhLast.response = Unreachable
    /\ pc = "exited"
    /\ exitCode = Some(1)

----------------------------------------------------------------------------
(* Properties of the stored records: immutability, identifiers, content,  *)
(* initialize on a file that cannot be loaded                              *)

\* C21: a stored record is never changed: across every step a record that
\* was in the store before is the same record after, a record remember has
\* just created has the fields of its input (type and importance defaulted),
\* and createdAt equals updatedAt on every stored record.
C21_RecordsNeverChange ==
    [][ \A i \in DOMAIN memories'[1] :
          LET m == memories'[1][i]
              known == \E j \in DOMAIN memories[1] : memories[1][j].id = m.id
          IN /\ m.createdAt = m.updatedAt
             /\ \A j \in DOMAIN memories[1] :
                  memories[1][j].id = m.id => memories[1][j] = m
             /\ (nextId' = nextId + 1 /\ ~known) =>
                  /\ m.id = nextId'
                  /\ m.content = last'.input.content
                  /\ m.type = (IF last'.input.type = Undefined THEN "fact"
                               ELSE last'.input.type[1])
                  /\ m.importance = (IF last'.input.importance = Undefined THEN 5
                                     ELSE last'.input.importance[1])
                  /\ m.metadata = last'.input.metadata
                  /\ m.createdAt = now' ]_vars

\* list() has reordered a store of two records created at different times
C21_Witness ==
    /\ last.op = "list"
    /\ Len(memories[1]) = 2
    /\ memories[1] # last.pre
    /\ memories[1][1].id = 2
    /\ memories[1][1].createdAt = memories[1][1].updatedAt

\* C22: no two records of the store have the same id; the id remember gives
\* a new record is that of no record in the store or the file and of none
\* handed out before; after forget(id) returned true no record has the id.
C22_IdsAreUnique ==
    /\ \A i, j \in DOMAIN memories[1] :
         i # j => memories[1][i].id # memories[1][j].id
    /\ (last.op = "remember" /\ ~last.threw) =>
         LET id == last.ret[1].id IN
         /\ \A i \in DOMAIN last.pre : last.pre[i].id # id
         /\ \A i \in DOMAIN last.preFile.memories : last.preFile.memories[i].id # id
         /\ \A i \in DOMAIN OldStore : OldStore[i].id # id
         /\ id = nextId
    /\ (last.op = "forget" /\ last.ret = TRUE) =>
         /\ \A i \in DOMAIN memories[last.inst] : memories[last.inst][i].id # last.input
         /\ Find(memories[last.inst], last.input) = Null

\* a remember on a store emptied by forget: the forgotten id is not reused
C22_Witness ==
    /\ last.op = "remember"
    /\ last.ret[1].id = 2
    /\ last.pre = <<>>
    /\ last.preFile.kind = "json"
    /\ last.preFile.memories = <<>>
    /\ Len(memories[1]) = 1

\* C23: no record created by remember has the empty string as content.
C23_ContentNeverEmpty ==
    (last.op = "remember" /\ ~last.threw) => last.ret[1].content # <<>>

\* C24: initialize() on a missing, unreadable or malformed file does not
\* throw, leaves the backend ready with no records, and leaves the file as
\* it was.
C24_InitializeRecoversFromBadFile ==
    (/\ last.op \in {"initialize", "restart"}
     /\ last.preFile.kind \in {"missing", "malformed"}) =>
        /\ ~last.threw
        /\ ready[last.inst]
        /\ memories[last.inst] = <<>>
        /\ file = last.preFile

\* the first initialize() found a file that does not parse
C24_Witness ==
    /\ last.op = "initialize"
    /\ ~last.wasReady
    /\ last.preFile = FileMalformed
    /\ ready[1]
    /\ memories[1] = <<>>

----------------------------------------------------------------------------
(* Properties of failed writes and of two processes on one file *)

\* C25: when the write of the storage file fails during remember or forget
\* the call throws and the in-memory sequence is what it was before the
\* call, so that memory and file still hold the same records.
C25_FailedWriteLeavesStoreAsBefore ==
    (last.op \in {"remember", "forget"} /\ last.threw) =>
        memories[last.inst] = last.pre

\* C26: with both instances initialized on the same file, after a remember
\* the file holds exactly the sequence of the instance that wrote last: a
\* record the other instance remembered is not in the file, and the call
\* that overwrote it did not throw.
C26_LastWriterWins ==
    (last.op = "remember" /\ \A b \in Inst : ready[b]) =>
        /\ ~last.threw
        /\ file.kind = "json"
        /\ Loaded(<<>>, file) = memories[last.inst]
        /\ \A o \in Inst \ {last.inst} : \A i \in DOMAIN memories[o] :
             (\A k \in DOMAIN OldStore : OldStore[k].id # memories[o][i].id) =>
                 \A j \in DOMAIN file.memories :
                     file.memories[j].id # memories[o][i].id

\* instance 1 remembered, then instance 2: the file lacks instance 1's record
C26_Witness ==
    /\ last.op = "remember"
    /\ last.inst = 2
    /\ \E i \in DOMAIN memories[1] : memories[1][i].id = 1
    /\ \E i \in DOMAIN memories[2] : memories[2][i].id = 2
    /\ \A j \in DOMAIN file.memories : file.memories[j].id # 1
    /\ \E j \in DOMAIN file.memories : file.memories[j].id = 2

----------------------------------------------------------------------------
(* Properties of the server's use of its backend *)

\* C28: the backend is chosen once and never replaced; its initialize() runs
\* only in the step that takes the server from start, which happens once,
\* and the server comes to serve only through an initialize() that did not
\* throw; a tool call is dispatched only while the server is serving.
C28_InitializedOnceBeforeServing ==
    [][ LET initRan ==
                \/ /\ last'.op = "initialize"
                   /\ (last.op # "initialize" \/ last'.wasReady # last.wasReady)
                \/ /\ lhLast'.op = "initialize"
                   /\ (lhLast.op # "initialize" \/ lhLast'.outcome # lhLast.outcome)
            served ==
                \/ reply'.tool # reply.tool
                \/ reply'.outcome # reply.outcome
                \/ reply'.text # reply.text
        IN /\ kind' = kind
           /\ pc' = "start" => pc = "start"
           /\ initRan => (pc = "start" /\ pc' # "start")
           /\ (pc = "start" /\ pc' = "serving") =>
                /\ initRan
                /\ kind = "local" => (last'.op = "initialize" /\ ~last'.threw)
                /\ kind = "remote" => lhLast'.outcome = "returned"
           /\ served => (pc = "serving" /\ pc' = "serving") ]_vars

\* a forget dispatched to the remote backend after its initialize() returned
C28_Witness ==
    /\ kind = "remote"
    /\ pc = "serving"
    /\ reply.tool = "forget"
    /\ reply.outcome = "returned"
    /\ lhLast.op = "forget"

----------------------------------------------------------------------------
(* Properties of tool calls in flight together *)

AllSettled ==
    /\ \A c \in Calls : inflight[c].stage \in {"idle", "done"}
    /\ \E c \in Calls : inflight[c].stage = "done"

\* At every await, and so at every point where another call can run, the
\* file holds the records of the in-memory sequence.
FileHoldsTheRecordsAtEveryAwait ==
    /\ Len(Loaded(<<>>, file)) = Len(memories[1])
    /\ \A i \in DOMAIN memories[1] :
         \E j \in DOMAIN memories[1] : Loaded(<<>>, file)[j] = memories[1][i]

\* C27: once all the calls in flight have completed, the file holds exactly
\* the in-memory sequence, order included, and that sequence has every
\* remembered record that no forget removed.
C27_SettledFileIsTheSequence ==
    AllSettled =>
        /\ Loaded(<<>>, file) = memories[1]
        /\ \A c \in Calls :
             (inflight[c].tool = "remember" /\ ~inflight[c].obs.threw) =>
                 \/ \E i \in DOMAIN memories[1] :
                      memories[1][i].id = inflight[c].obs.ret[1].id
                 \/ \E d \in Calls :
                      /\ inflight[d].tool = "forget"
                      /\ inflight[d].args.memoryId[1] = inflight[c].obs.ret[1].id
                      /\ inflight[d].obs.ret = TRUE

====
